---- MODULE Spec2Model ----
(***************************************************************************)
(* The JWT middleware of yee (middleware/jwt.go): JWTWithConfig builds a   *)
(* handler from a JwtConfig; the handler extracts a credential from a      *)
(* request header, has jwt-go parse and verify it, and either puts the     *)
(* token into the request's context or answers 400 / 401.                  *)
(*                                                                         *)
(* Strings the code slices or splits are sequences of one-character        *)
(* strings.  An error is a sequence of text pieces (the pieces of the      *)
(* format string and its arguments); the nil error is the empty sequence.  *)
(***************************************************************************)
EXTENDS Integers, Sequences, FiniteSets, TLC

\* ------------------------------------------------------------------ bounds
\* request slots served at once / largest reading of the library's clock
NReq == 2
MaxTime == 2

Slots == 1..NReq

\* ----------------------------------------------------------------- strings
Bearer == <<"B","e","a","r","e","r">>
Basic == <<"B","a","s","i","c">>
algorithmHS256 == "HS256"
HeaderAuthorization == <<"A","u","t","h","o","r","i","z","a","t","i","o","n">>
LookupToken == <<"t","o","k","e","n">>
LookupHeader == <<"h","e","a","d","e","r">>
LookupQuery == <<"q","u","e","r","y">>
LookupCookie == <<"c","o","o","k","i","e">>
Secret == <<"s","e","c","r","e","t">>

Lowers == <<"a","b","c","d","e","f","g","h","i","j","k","l","m",
            "n","o","p","q","r","s","t","u","v","w","x","y","z">>
Uppers == <<"A","B","C","D","E","F","G","H","I","J","K","L","M",
            "N","O","P","Q","R","S","T","U","V","W","X","Y","Z">>

ToUpper(c) ==
  IF \E i \in 1..26 : Lowers[i] = c
    THEN Uppers[CHOOSE i \in 1..26 : Lowers[i] = c] ELSE c

ToLower(c) ==
  IF \E i \in 1..26 : Uppers[i] = c
    THEN Lowers[CHOOSE i \in 1..26 : Uppers[i] = c] ELSE c

\* textproto.CanonicalMIMEHeaderKey, which http.Header.Get applies to the
\* name it is asked for: upper case at the start and after "-", else lower.
CanonicalMIMEHeaderKey(s) ==
  [i \in 1..Len(s) |->
     IF i = 1 \/ s[i - 1] = "-" THEN ToUpper(s[i]) ELSE ToLower(s[i])]

\* strings.Split(s, sep) for a one-character sep
RECURSIVE SplitFrom(_, _, _, _)
SplitFrom(s, sep, i, cur) ==
  IF i > Len(s) THEN <<cur>>
  ELSE IF s[i] = sep THEN <<cur>> \o SplitFrom(s, sep, i + 1, <<>>)
  ELSE SplitFrom(s, sep, i + 1, Append(cur, s[i]))

Split(s, sep) == SplitFrom(s, sep, 1, <<>>)

\* ------------------------------------------------------------------ errors
NilErr == <<>>
Errorf(pieces) == pieces
ErrMalformedJwt == <<"missing or malformed jwt">>
InvalidOrExpired == <<"invalid or expired jwt">>

StatusBadRequest == 400
StatusUnauthorized == 401

\* --------------------------------------------------------------- the heap
\* Claims instances live at addresses: 0 holds config.Claims, slot r's
\* request allocates address r.
ConfigClaimsAddr == 0
Addrs == 0..NReq
NoAddr == -1

ZeroClaims == [alloc |-> TRUE, sub |-> "", subKind |-> "string", exp |-> 0, nbf |-> 0]
Unallocated == [alloc |-> FALSE, sub |-> "", subKind |-> "string", exp |-> 0, nbf |-> 0]

\* ------------------------------------------------- the token library (jwt-go)
\* A token string is three segments joined by ".".  A segment stands for a
\* base64url text by one character; the tables below are its decoding.
\* Signatures are left abstract: the third segment names the method and key
\* under which the first two were signed.
RegisteredMethods == {"HS256", "HS384", "HS512", "none"}

DecodeHeaderSeg(seg) ==
  CASE seg = <<"h">> -> [ok |-> TRUE, alg |-> "HS256"]
    [] seg = <<"g">> -> [ok |-> TRUE, alg |-> "HS384"]
    [] seg = <<"o">> -> [ok |-> TRUE, alg |-> "none"]
    [] seg = <<"u">> -> [ok |-> TRUE, alg |-> "XS1"]
    [] OTHER -> [ok |-> FALSE, alg |-> ""]

DecodeClaimsSeg(seg) ==
  CASE seg = <<"v">> -> [ok |-> TRUE, c |-> [ZeroClaims EXCEPT !.sub = "alice"]]
    [] seg = <<"e">> -> [ok |-> TRUE, c |-> [ZeroClaims EXCEPT !.sub = "bob", !.exp = 1]]
    [] seg = <<"n">> -> [ok |-> TRUE, c |-> [ZeroClaims EXCEPT !.sub = "carol", !.nbf = 1]]
    [] seg = <<"t">> -> [ok |-> TRUE, c |-> [ZeroClaims EXCEPT !.sub = "7", !.subKind = "number"]]
    [] OTHER -> [ok |-> FALSE, c |-> ZeroClaims]

\* the signature segment a signer holding `key` produces under `alg`
SignatureOf(alg, key) ==
  CASE alg = "HS256" /\ key = Secret -> <<"k">>
    [] alg = "HS384" /\ key = Secret -> <<"j">>
    [] alg = "HS256" /\ key = <<>> -> <<"z">>
    [] alg = "HS384" /\ key = <<>> -> <<"y">>
    [] OTHER -> <<"#">>

\* SigningMethod.Verify: the nil error when the signature is the key's
MethodVerify(alg, signature, key) ==
  IF alg = "none" THEN <<"'none' signature type is not allowed">>
  ELSE IF key.isNil THEN <<"key is of invalid type">>
  ELSE IF signature = SignatureOf(alg, key.bytes) THEN NilErr
  ELSE <<"signature is invalid">>

Digits == <<"0","1","2","3","4","5","6","7","8","9">>
DurationString(d) == IF d \in 0..9 THEN <<Digits[d + 1], "s">> ELSE <<"9+", "s">>

\* MapClaims.Valid and StandardClaims.Valid at clock reading t: 0 is "unset"
ClaimsValid(c, variant, t) ==
  LET expired == c.exp # 0 /\ t > c.exp
      early == c.nbf # 0 /\ t < c.nbf
  IN  IF variant = "MapClaims"
        THEN IF early THEN <<"Token is not valid yet">>
             ELSE IF expired THEN <<"Token is expired">>
             ELSE NilErr
        ELSE IF early THEN <<"token is not valid yet">>
             ELSE IF expired THEN <<"token is expired by ">> \o DurationString(t - c.exp)
             ELSE NilErr

NilToken ==
  [isNil |-> TRUE, Raw |-> <<>>, Method |-> "", Claims |-> NoAddr,
   Signature |-> <<>>, Valid |-> FALSE]

\* new(jwt.Token)
NewToken == [NilToken EXCEPT !.isNil = FALSE]

\* json decoding of a claims payload into the instance at the address: the
\* typed shape declares sub as a string
DecodeInto(c, variant) ==
  IF variant = "Typed" /\ c.subKind # "string"
    THEN [ok |-> FALSE, c |-> [c EXCEPT !.sub = "", !.subKind = "string"]]
    ELSE [ok |-> TRUE, c |-> c]

\* ------------------------------------------------------ the configuration
\* SigningKey is an interface value: nil, or a byte string
NilKey == [isNil |-> TRUE, bytes |-> <<>>]
BytesKey(b) == [isNil |-> FALSE, bytes |-> b]

\* Claims is "nil", "MapClaims" or "Typed" (a pointer to a caller's struct,
\* the instance at ConfigClaimsAddr).  ErrorHandler and SuccessHandler say
\* whether the hook is set.
DefaultJwtConfig ==
  [GetKey |-> "auth", AuthScheme |-> Bearer, SigningKey |-> NilKey,
   SigningMethod |-> algorithmHS256,
   TokenLookup |-> LookupHeader \o <<":">> \o HeaderAuthorization,
   Claims |-> "MapClaims", ErrorHandler |-> FALSE, SuccessHandler |-> FALSE]

ResolveDefaultsNoGetKey(c) ==
  [c EXCEPT
     !.SigningMethod = IF @ = "" THEN algorithmHS256 ELSE @,
     !.AuthScheme = IF @ = <<>> THEN Bearer ELSE @,
     !.Claims = IF @ = "nil" THEN "MapClaims" ELSE @,
     !.TokenLookup = IF @ = <<>> THEN LookupHeader \o <<":">> \o HeaderAuthorization ELSE @]

\* JWTWithConfig's defaulting of the unset fields, lines 51-67
ResolveDefaults(c) ==
  [c EXCEPT
     !.SigningMethod = IF @ = "" THEN DefaultJwtConfig.SigningMethod ELSE @,
     !.GetKey = IF @ = "" THEN DefaultJwtConfig.GetKey ELSE @,
     !.AuthScheme = IF @ = <<>> THEN DefaultJwtConfig.AuthScheme ELSE @,
     !.Claims = IF @ = "nil" THEN DefaultJwtConfig.Claims ELSE @,
     !.TokenLookup = IF @ = <<>> THEN DefaultJwtConfig.TokenLookup ELSE @]

\* config.keyFunc, lines 69-74: the key only for the configured method
keyFuncAnyMethod(cfg, token) == [key |-> cfg.SigningKey, err |-> NilErr]

keyFunc(cfg, token) ==
  IF token.Method # cfg.SigningMethod
    THEN [key |-> NilKey,
          err |-> Errorf(<<"unexpected jwt signing method=", token.Method>>)]
    ELSE [key |-> cfg.SigningKey, err |-> NilErr]

\* Parser.ParseWithClaims(tokenString, claims, keyFunc) at clock reading t,
\* decoding into the claims instance at addr.  Yields the token, the error,
\* the heap after decoding and the calls made on the way.
ParseWithClaims(tokenString, addr, variant, cfg, t, hp) ==
  LET parts == Split(tokenString, ".")
      hdr == DecodeHeaderSeg(parts[1])
      raw == DecodeClaimsSeg(parts[2])
      dec == DecodeInto(raw.c, variant)
      tok0 == [NewToken EXCEPT !.Raw = tokenString]
      tok1 == [tok0 EXCEPT !.Claims = addr]
      hp1 == [hp EXCEPT ![addr] = dec.c]
      tok2 == [tok1 EXCEPT !.Method = hdr.alg]
      kf == keyFunc(cfg, tok2)
      cerr == ClaimsValid(dec.c, variant, t)
      tok3 == [tok2 EXCEPT !.Signature = parts[3]]
      serr == MethodVerify(tok2.Method, parts[3], kf.key)
      verr == IF serr # NilErr THEN serr ELSE cerr
  IN  IF Len(parts) # 3
        THEN [token |-> NilToken, heap |-> hp, calls |-> <<>>,
              err |-> <<"token contains an invalid number of segments">>]
      ELSE IF ~hdr.ok
        THEN [token |-> tok0, heap |-> hp, calls |-> <<>>,
              err |-> <<"illegal base64 data at input byte 0">>]
      ELSE IF ~raw.ok
        THEN [token |-> tok1, heap |-> hp, calls |-> <<>>,
              err |-> <<"illegal base64 data at input byte 0">>]
      ELSE IF ~dec.ok
        THEN [token |-> tok1, heap |-> hp1, calls |-> <<>>,
              err |-> <<"json: cannot unmarshal number into Go struct field of type string">>]
      ELSE IF hdr.alg \notin RegisteredMethods
        THEN [token |-> tok1, heap |-> hp1, calls |-> <<>>,
              err |-> <<"signing method (alg) is unavailable.">>]
      ELSE IF kf.err # NilErr
        THEN [token |-> tok2, heap |-> hp1, calls |-> <<"keyFunc">>,
              err |-> kf.err]
      ELSE IF verr # NilErr
        THEN [token |-> tok3, heap |-> hp1, calls |-> <<"keyFunc", "Verify">>,
              err |-> verr]
      ELSE [token |-> [tok3 EXCEPT !.Valid = TRUE], heap |-> hp1,
            calls |-> <<"keyFunc", "Verify">>, err |-> NilErr]

\* jwt.Parse(tokenString, keyFunc): ParseWithClaims into a new MapClaims{}
Parse(tokenString, addr, cfg, t, hp) ==
  ParseWithClaims(tokenString, addr, "MapClaims", cfg, t, hp)

\* ------------------------------------------------------------ the requests
\* A request carries one credential: in a header, in the query string or in
\* a cookie, under a name.
Request(method, src, name, value) ==
  [method |-> method, src |-> src, name |-> name, value |-> value]

NoRequest == Request("", "", <<>>, <<>>)

\* c.Request().Header.Get(header)
HeaderGet(q, header) ==
  IF q.src = "header"
     /\ CanonicalMIMEHeaderKey(q.name) = CanonicalMIMEHeaderKey(header)
    THEN q.value ELSE <<>>

\* jwtFromHeader(header, authScheme), lines 106-115
jwtFromHeader(header, authScheme, q) ==
  LET auth == HeaderGet(q, header)
      l == Len(authScheme)
  IN  IF Len(auth) > l + 1 /\ SubSeq(auth, 1, l) = authScheme
        THEN [auth |-> SubSeq(auth, l + 2, Len(auth)), err |-> NilErr]
        ELSE [auth |-> <<>>, err |-> ErrMalformedJwt]

\* parts[1] of strings.Split(config.TokenLookup, ":"), line 77
LookupPartSource(parts) == parts[1]

LookupPart(parts) == parts[2]

\* reflect.New(t).Interface(): slot r's own claims instance, lines 91-92
NewClaimsShared(r) == ConfigClaimsAddr

NewClaims(r) == r

\* the test of line 95
AcceptsAnyToken(e, tok) == ~tok.isNil

Accepts(e, tok) == e = NilErr /\ tok.Valid

\* the per-request store: c.Put and c.Get
Put(m, k, v) == {p \in m : p[1] # k} \cup {<<k, v>>}
Has(m, k) == \E p \in m : p[1] = k
Get(m, k) == (CHOOSE p \in m : p[1] = k)[2]

NoResponse == [status |-> 0, body |-> <<>>]
\* c.JSON(code, text): the response is written and the pipeline halts
JSON(code, text) == [status |-> code, body |-> text]

NotSeen == [found |-> FALSE, token |-> NilToken, claims |-> Unallocated]

VARIABLES
  cfgIn,     \* the JwtConfig handed to JWTWithConfig
  setup,     \* "pending", "ready" (a handler was returned) or "panic"
  config,    \* the configuration the handler closes over
  header,    \* the header name the extractor closes over
  now,       \* the library's clock (jwt.TimeFunc)
  heap,      \* the claims instances
  pc,        \* per slot: idle, extract, parse, decide, returned, done
  req,       \* per slot: the request
  auth,      \* per slot: the handler's auth
  err,       \* per slot: the handler's err
  token,     \* per slot: the handler's token
  store,     \* per slot: the context's key/value store
  resp,      \* per slot: the response written
  log,       \* per slot: the calls made for the request, in order
  tparse,    \* per slot: the clock reading the library validated against
  seen       \* per slot: what the next handler found under config.GetKey

vars == <<cfgIn, setup, config, header, now, heap, pc, req, auth, err, token,
          store, resp, log, tparse, seen>>

reqVars == <<pc, req, auth, err, token, store, resp, log, tparse, seen>>

\* -------------------------------------------------------------- the inputs
Lookup(src, name) == src \o <<":">> \o name

ConfigInputs ==
  [GetKey : {"", "user"},
   AuthScheme : {<<>>, Basic},
   SigningKey : {NilKey, BytesKey(<<>>), BytesKey(Secret)},
   SigningMethod : {"", "HS384"},
   TokenLookup : {<<>>, Lookup(LookupQuery, LookupToken),
                  Lookup(LookupCookie, LookupToken), HeaderAuthorization},
   Claims : {"nil", "Typed"},
   ErrorHandler : BOOLEAN,
   SuccessHandler : BOOLEAN]

Tok(h, c, sg) == h \o <<".">> \o c \o <<".">> \o sg

TokValid == Tok(<<"h">>, <<"v">>, <<"k">>)
TokExpiring == Tok(<<"h">>, <<"e">>, <<"k">>)
TokNotBefore == Tok(<<"h">>, <<"n">>, <<"k">>)
TokBadSig == Tok(<<"h">>, <<"v">>, <<"w">>)
TokHS384 == Tok(<<"g">>, <<"v">>, <<"j">>)
TokNone == Tok(<<"o">>, <<"v">>, <<>>)
TokUnknownAlg == Tok(<<"u">>, <<"v">>, <<"k">>)
TokBadClaims == Tok(<<"h">>, <<"?">>, <<"k">>)
TokNumberSub == Tok(<<"h">>, <<"t">>, <<"k">>)
TokEmptyKey == Tok(<<"h">>, <<"v">>, <<"z">>)
TokBadHeader == Tok(<<"?">>, <<"v">>, <<"k">>)
TokTwoSegments == <<"h", ".", "v">>

Tokens ==
  {TokValid, TokExpiring, TokNotBefore, TokBadSig, TokHS384, TokNone,
   TokUnknownAlg, TokBadClaims, TokNumberSub, TokEmptyKey, TokBadHeader,
   TokTwoSegments}

HeaderValues ==
  {Bearer \o <<" ">> \o t : t \in Tokens}
    \cup {<<>>, Bearer \o <<" ">>, Bearer \o <<"X">> \o TokValid,
          Bearer \o TokValid, Basic \o <<" ">> \o TokValid,
          Basic \o <<" ">> \o TokHS384}

FewValues == {<<>>, Bearer \o <<" ">> \o TokValid, Bearer \o <<" ">> \o TokBadSig}

Requests ==
  {Request("GET", "header", HeaderAuthorization, v) : v \in HeaderValues}
    \cup {Request("OPTIONS", "header", HeaderAuthorization, v) : v \in FewValues}
    \cup {Request("GET", src, LookupToken, v) :
            src \in {"header", "query", "cookie"}, v \in FewValues \ {<<>>}}

ConcConfigInputs ==
  {[GetKey |-> "", AuthScheme |-> <<>>, SigningKey |-> BytesKey(Secret),
    SigningMethod |-> "", TokenLookup |-> <<>>, Claims |-> c,
    ErrorHandler |-> FALSE, SuccessHandler |-> FALSE] : c \in {"nil", "Typed"}}

ConcRequests ==
  {Request("GET", "header", HeaderAuthorization, Bearer \o <<" ">> \o t) :
     t \in {TokValid, TokExpiring, TokBadSig}}

\* ---------------------------------------------------------------- the state
InitWith(cfgs) ==
  /\ cfgIn \in cfgs
  /\ setup = "pending"
  /\ config = cfgIn
  /\ header = <<>>
  /\ now = 0
  /\ heap = [a \in Addrs |-> IF a = ConfigClaimsAddr THEN ZeroClaims ELSE Unallocated]
  /\ pc = [r \in Slots |-> "idle"]
  /\ req = [r \in Slots |-> NoRequest]
  /\ auth = [r \in Slots |-> <<>>]
  /\ err = [r \in Slots |-> NilErr]
  /\ token = [r \in Slots |-> NilToken]
  /\ store = [r \in Slots |-> {}]
  /\ resp = [r \in Slots |-> NoResponse]
  /\ log = [r \in Slots |-> <<>>]
  /\ tparse = [r \in Slots |-> -1]
  /\ seen = [r \in Slots |-> NotSeen]

Init == InitWith(ConfigInputs)
InitConc == InitWith(ConcConfigInputs)

\* JWTWithConfig(config), lines 47-78: panics without a signing key and on a
\* lookup rule without ":", else returns the handler
JWTWithConfig ==
  /\ setup = "pending"
  /\ LET c == ResolveDefaults(cfgIn)
         parts == Split(c.TokenLookup, ":")
     IN  IF cfgIn.SigningKey.isNil \/ Len(parts) < 2
           THEN /\ setup' = "panic"
                /\ UNCHANGED <<config, header>>
           ELSE /\ setup' = "ready"
                /\ config' = c
                /\ header' = LookupPart(parts)
  /\ UNCHANGED <<cfgIn, now, heap, reqVars>>

\* the clock advances
Tick ==
  /\ now < MaxTime
  /\ now' = now + 1
  /\ UNCHANGED <<cfgIn, setup, config, header, heap, reqVars>>

\* the pipeline hands request q, with a fresh context, to the handler
Arrive(r, q) ==
  /\ setup = "ready"
  /\ pc[r] = "idle"
  /\ req' = [req EXCEPT ![r] = q]
  /\ pc' = [pc EXCEPT ![r] = "extract"]
  /\ UNCHANGED <<cfgIn, setup, config, header, now, heap, auth, err, token,
                 store, resp, log, tparse, seen>>

\* lines 80-83
Extract(r) ==
  /\ pc[r] = "extract"
  /\ LET e == jwtFromHeader(header, config.AuthScheme, req[r])
     IN  /\ auth' = [auth EXCEPT ![r] = e.auth]
         /\ err' = [err EXCEPT ![r] = e.err]
         /\ IF e.err # NilErr
              THEN /\ resp' = [resp EXCEPT ![r] = JSON(StatusBadRequest, e.err)]
                   /\ log' = [log EXCEPT ![r] = @ \o <<"Header.Get", "JSON">>]
                   /\ pc' = [pc EXCEPT ![r] = "returned"]
              ELSE /\ log' = [log EXCEPT ![r] = @ \o <<"Header.Get">>]
                   /\ pc' = [pc EXCEPT ![r] = "parse"]
                   /\ UNCHANGED resp
  /\ UNCHANGED <<cfgIn, setup, config, header, now, heap, req, token, store,
                 tparse, seen>>

\* lines 84-94: jwt.Parse for MapClaims (its error answered at once), else
\* jwt.ParseWithClaims into a new instance of the configured shape
ParseToken(r) ==
  /\ pc[r] = "parse"
  /\ LET res == IF config.Claims = "MapClaims"
                  THEN Parse(auth[r], r, config, now, heap)
                  ELSE ParseWithClaims(auth[r], NewClaims(r), "Typed", config, now, heap)
     IN  /\ token' = [token EXCEPT ![r] = res.token]
         /\ err' = [err EXCEPT ![r] = res.err]
         /\ heap' = res.heap
         /\ tparse' = [tparse EXCEPT ![r] = now]
         /\ IF config.Claims = "MapClaims" /\ res.err # NilErr
              THEN /\ resp' = [resp EXCEPT ![r] = JSON(StatusUnauthorized, res.err)]
                   /\ log' = [log EXCEPT ![r] = @ \o res.calls \o <<"JSON">>]
                   /\ pc' = [pc EXCEPT ![r] = "returned"]
              ELSE /\ log' = [log EXCEPT ![r] = @ \o res.calls]
                   /\ pc' = [pc EXCEPT ![r] = "decide"]
                   /\ UNCHANGED resp
  /\ UNCHANGED <<cfgIn, setup, config, header, now, req, auth, store, seen>>

\* lines 95-102
Decide(r) ==
  /\ pc[r] = "decide"
  /\ IF Accepts(err[r], token[r])
       THEN /\ store' = [store EXCEPT ![r] = Put(@, config.GetKey, token[r])]
            /\ log' = [log EXCEPT ![r] = @ \o <<"Put">>]
            /\ UNCHANGED resp
       ELSE /\ resp' = [resp EXCEPT ![r] = JSON(StatusUnauthorized, InvalidOrExpired)]
            /\ log' = [log EXCEPT ![r] = @ \o <<"JSON">>]
            /\ UNCHANGED store
  /\ pc' = [pc EXCEPT ![r] = "returned"]
  /\ UNCHANGED <<cfgIn, setup, config, header, now, heap, req, auth, err,
                 token, tparse, seen>>

\* the pipeline after the handler returned: halted by a written response,
\* else the next handler runs and looks under config.GetKey
Pipeline(r) ==
  /\ pc[r] = "returned"
  /\ pc' = [pc EXCEPT ![r] = "done"]
  /\ IF resp[r] # NoResponse
       THEN UNCHANGED <<log, seen>>
       ELSE /\ log' = [log EXCEPT ![r] = @ \o <<"next">>]
            /\ seen' = [seen EXCEPT ![r] =
                 IF Has(store[r], config.GetKey)
                   THEN LET tk == Get(store[r], config.GetKey)
                        IN  [found |-> TRUE, token |-> tk,
                             claims |-> IF tk.Claims \in Addrs THEN heap[tk.Claims]
                                        ELSE Unallocated]
                   ELSE NotSeen]
  /\ UNCHANGED <<cfgIn, setup, config, header, now, heap, req, auth, err,
                 token, store, resp, tparse>>

Next ==
  \/ JWTWithConfig
  \/ Tick
  \/ \E q \in Requests : Arrive(1, q)
  \/ Extract(1)
  \/ ParseToken(1)
  \/ Decide(1)
  \/ Pipeline(1)

NextConc ==
  \/ JWTWithConfig
  \/ Tick
  \/ \E r \in Slots, q \in ConcRequests : Arrive(r, q)
  \/ \E r \in Slots : Extract(r)
  \/ \E r \in Slots : ParseToken(r)
  \/ \E r \in Slots : Decide(r)
  \/ \E r \in Slots : Pipeline(r)

Spec == Init /\ [][Next]_vars
SpecConc == InitConc /\ [][NextConc]_vars

\* ------------------------------------------------------------- the claims
Returned(r) == pc[r] \in {"returned", "done"}
Done(r) == pc[r] = "done"
Reached(r) == tparse[r] # -1
Called(r, what) == \E i \in 1..Len(log[r]) : log[r][i] = what
Calls(r, what) == Cardinality({i \in 1..Len(log[r]) : log[r][i] = what})
Forwarded(r) == Done(r) /\ Called(r, "next")

\* the credential is correctly signed under the configured method and key,
\* decodes into the configured claims shape and is in its validity period
\* at clock reading t
Genuine(tok, cfg, t) ==
  LET parts == Split(tok, ".")
  IN  /\ Len(parts) = 3
      /\ LET h == DecodeHeaderSeg(parts[1])
             c == DecodeClaimsSeg(parts[2])
         IN  /\ h.ok /\ c.ok
             /\ h.alg = cfg.SigningMethod
             /\ h.alg \in {"HS256", "HS384"}
             /\ ~cfg.SigningKey.isNil
             /\ parts[3] = SignatureOf(h.alg, cfg.SigningKey.bytes)
             /\ (cfg.Claims = "Typed" => c.c.subKind = "string")
             /\ (c.c.exp = 0 \/ t <= c.c.exp)
             /\ (c.c.nbf = 0 \/ t >= c.c.nbf)

\* the payload of a three-segment credential
PayloadOf(tok) == DecodeClaimsSeg(Split(tok, ".")[2]).c

\* the header value is scheme, one space, and at least one more character
WellFormed(value, scheme) ==
  /\ Len(value) > Len(scheme) + 1
  /\ SubSeq(value, 1, Len(scheme) + 1) = scheme \o <<" ">>

\* C1: a request whose credential passed extraction but is not genuine
\* (bad signature, other algorithm, expired, not yet valid, unparsable,
\* claims that do not decode) never has a value put into its store, is
\* answered 401 and is not forwarded, under both claims variants.
C1_FailClosed ==
  \A r \in Slots :
    (Reached(r) /\ ~Genuine(auth[r], config, tparse[r])) =>
      /\ store[r] = {}
      /\ ~Called(r, "Put")
      /\ ~Called(r, "next")
      /\ Returned(r) => resp[r].status = StatusUnauthorized

C1_Witness ==
  \E r \in Slots :
    /\ Done(r) /\ config.Claims = "Typed"
    /\ auth[r] = TokExpiring /\ tparse[r] = 2
    /\ resp[r].status = StatusUnauthorized

\* C2: a request whose configured header is missing or does not begin with
\* the scheme, one space and a further character is answered 400 and
\* nothing is stored.
C2_MalformedIs400 ==
  \A r \in Slots :
    (Returned(r) /\ ~WellFormed(HeaderGet(req[r], header), config.AuthScheme)) =>
      /\ resp[r].status = StatusBadRequest
      /\ store[r] = {}

\* C3: a credential declaring another algorithm than config.SigningMethod is
\* answered 401 with nothing stored; keyFunc does not hand out the key for
\* it and no signature check is attempted.
C3_AlgorithmMismatch ==
  \A r \in Slots :
    (Reached(r) /\ Len(Split(auth[r], ".")) = 3
       /\ DecodeHeaderSeg(Split(auth[r], ".")[1]).ok
       /\ DecodeHeaderSeg(Split(auth[r], ".")[1]).alg # config.SigningMethod) =>
      /\ store[r] = {}
      /\ ~Called(r, "Verify")
      /\ Returned(r) => resp[r].status = StatusUnauthorized
      /\ keyFunc(config, [NewToken EXCEPT
           !.Method = DecodeHeaderSeg(Split(auth[r], ".")[1]).alg]).err # NilErr

C3_Witness ==
  \E r \in Slots :
    /\ Done(r) /\ auth[r] = TokHS384
    /\ config.SigningMethod = "HS256" /\ config.SigningKey = BytesKey(Secret)
    /\ TokHS384 = Tok(<<"g">>, <<"v">>, SignatureOf("HS384", Secret))
    /\ resp[r].status = StatusUnauthorized

C5_SameRejection ==
  \A r1, r2 \in Slots :
    (Returned(r1) /\ Returned(r2) /\ Reached(r1) /\ Reached(r2)
       /\ resp[r1] # NoResponse /\ resp[r2] # NoResponse) =>
      resp[r1] = resp[r2]

\* C6: no handler built from a configuration whose signing key is absent or
\* empty ever processes a request.
C6_KeyNonEmpty ==
  \A r \in Slots :
    pc[r] # "idle" => (~cfgIn.SigningKey.isNil /\ cfgIn.SigningKey.bytes # <<>>)

\* C7: with the hooks set, a forwarded request has had SuccessHandler called
\* exactly once and a rejected one ErrorHandler exactly once.
C7_HooksInvoked ==
  \A r \in Slots :
    Done(r) =>
      /\ (config.SuccessHandler /\ Forwarded(r)) => Calls(r, "SuccessHandler") = 1
      /\ (config.ErrorHandler /\ resp[r] # NoResponse) => Calls(r, "ErrorHandler") = 1

\* C8: a request with method OPTIONS never reaches extraction, is never
\* answered 400 or 401 and never has a value stored.
C8_OptionsBypass ==
  \A r \in Slots :
    req[r].method = "OPTIONS" =>
      /\ ~Called(r, "Header.Get")
      /\ resp[r].status \notin {StatusBadRequest, StatusUnauthorized}
      /\ store[r] = {}

\* what request q gets when the handler runs on it alone, start to end, at
\* clock reading t: the response and what the next handler finds
SoloOutcome(q, cfg, hdr, t) ==
  LET e == jwtFromHeader(hdr, cfg.AuthScheme, q)
      hp == [a \in Addrs |-> IF a = ConfigClaimsAddr THEN ZeroClaims ELSE Unallocated]
      res == IF cfg.Claims = "MapClaims"
               THEN Parse(e.auth, 1, cfg, t, hp)
               ELSE ParseWithClaims(e.auth, NewClaims(1), "Typed", cfg, t, hp)
  IN  IF e.err # NilErr
        THEN [resp |-> JSON(StatusBadRequest, e.err), found |-> FALSE,
              claims |-> Unallocated]
      ELSE IF cfg.Claims = "MapClaims" /\ res.err # NilErr
        THEN [resp |-> JSON(StatusUnauthorized, res.err), found |-> FALSE,
              claims |-> Unallocated]
      ELSE IF Accepts(res.err, res.token)
        THEN [resp |-> NoResponse, found |-> TRUE,
              claims |-> res.heap[res.token.Claims]]
      ELSE [resp |-> JSON(StatusUnauthorized, InvalidOrExpired), found |-> FALSE,
            claims |-> Unallocated]

Outcome(r) == [resp |-> resp[r], found |-> seen[r].found, claims |-> seen[r].claims]

\* C9 as stated: the outcome of a request depends only on its header value
\* and the configuration, so two requests with the same header value get the
\* same outcome.
C9_SameHeaderSameOutcome ==
  \A r1, r2 \in Slots :
    (Done(r1) /\ Done(r2) /\ req[r1] = req[r2]) => Outcome(r1) = Outcome(r2)

\* C9 amended: the outcome of a request depends only on its header value, the
\* configuration fixed at setup and the clock reading its credential was
\* validated against: under any interleaving each request gets the outcome it
\* gets when run alone at that reading, the handler writes neither the
\* configuration nor the configured claims instance, and two requests with
\* the same header value validated at the same reading get the same outcome
\* with identical claims.
C9_Independent ==
  /\ setup = "ready" => config = ResolveDefaults(cfgIn)
  /\ heap[ConfigClaimsAddr] = ZeroClaims
  /\ \A r \in Slots :
       Done(r) => Outcome(r) = SoloOutcome(req[r], config, header, tparse[r])
  /\ \A r1, r2 \in Slots :
       (Done(r1) /\ Done(r2) /\ req[r1] = req[r2] /\ tparse[r1] = tparse[r2]) =>
         Outcome(r1) = Outcome(r2)

C9_Witness ==
  /\ config.Claims = "Typed"
  /\ Done(1) /\ Done(2)
  /\ auth[1] = TokExpiring /\ auth[2] = TokValid
  /\ tparse[1] = 1 /\ tparse[2] = 1
  /\ seen[1].found /\ seen[2].found
  /\ seen[1].claims.sub = "bob" /\ seen[2].claims.sub = "alice"

HasColon(s) == \E i \in 1..Len(s) : s[i] = ":"
FirstColon(s) == CHOOSE i \in 1..Len(s) : s[i] = ":" /\ \A j \in 1..(i - 1) : s[j] # ":"
\* the <name> of "<source>:<name>"
NameOf(s) ==
  LET rest == SubSeq(s, FirstColon(s) + 1, Len(s))
  IN  IF HasColon(rest) THEN SubSeq(rest, 1, FirstColon(rest) - 1) ELSE rest

GivenLookup ==
  IF cfgIn.TokenLookup = <<>>
    THEN <<"h","e","a","d","e","r",":">> \o HeaderAuthorization
    ELSE cfgIn.TokenLookup

\* C10: whatever the source part of TokenLookup says, the credential is read
\* from the request header called <name> and checked against the scheme
\* prefix; a credential in the query string or a cookie is never used; an
\* unset TokenLookup means "header:Authorization"; a TokenLookup without ":"
\* yields no handler.
C10_HeaderOnly ==
  /\ setup = "ready" => (HasColon(GivenLookup) /\ header = NameOf(GivenLookup))
  /\ ~HasColon(GivenLookup) => setup # "ready"
  /\ \A r \in Slots :
       Returned(r) =>
         LET name == NameOf(GivenLookup)
             v == IF req[r].src = "header"
                     /\ CanonicalMIMEHeaderKey(req[r].name) = CanonicalMIMEHeaderKey(name)
                    THEN req[r].value ELSE <<>>
             l == Len(config.AuthScheme)
             prefixed == Len(v) > l + 1 /\ SubSeq(v, 1, l) = config.AuthScheme
         IN  /\ (resp[r].status = StatusBadRequest) <=> ~prefixed
             /\ prefixed => auth[r] = SubSeq(v, l + 2, Len(v))
             /\ req[r].src \in {"query", "cookie"} =>
                  (resp[r].status = StatusBadRequest /\ store[r] = {})

C10_Witness ==
  \E r \in Slots :
    /\ cfgIn.TokenLookup = Lookup(LookupQuery, LookupToken)
    /\ req[r].src = "header" /\ req[r].name = LookupToken
    /\ Forwarded(r) /\ seen[r].found

====
